---- MODULE Spec2Model ----
(***************************************************************************)
(* A model of three parts of texar-pytorch:                                *)
(*   - texar/modules/embedders/embedder_utils.py                           *)
(*       default_embedding_hparams, get_embedding, soft_embedding_lookup   *)
(*   - texar/torch/utils/variables.py                                      *)
(*       add_variable, collect_trainable_variables                         *)
(*   - texar/torch/modules/encoder_decoders/t5_encoder_decoder.py          *)
(*       T5EncoderDecoder.__init__, _embedding_fn, reset_parameters        *)
(*                                                                         *)
(* Python values are records tagged with their type in field t; every      *)
(* type keeps its payload in a field of its own name, so that values of    *)
(* different types are comparable.  Tensors are stored as torch stores a   *)
(* contiguous tensor: a shape and the elements in row-major order.         *)
(***************************************************************************)
EXTENDS Integers, Sequences, FiniteSets, TLC

VARIABLES
    \* ---- embedder_utils: which function was called ("idle": none yet)
    emb_call,
    \* ---- get_embedding: the call's arguments and what it did
    hparams,        \* argument hparams as passed
    init_value,     \* argument init_value as passed
    num_embeds,     \* argument num_embeds as passed
    resolved,       \* hparams after line 148 (a key -> value function)
    initializer,    \* local initializer of line 150 ("unset" when not looked up)
    applied,        \* the initializers applied to the table, in order
    embedding,      \* the tensor returned (NoTensor when the call raised)
    raised,         \* the exception a call left with ("" when it returned)
    \* ---- soft_embedding_lookup: the call
    sl_embedding,   \* argument embedding
    soft_ids,       \* argument soft_ids
    sl_result,      \* the tensor returned
    \* ---- collect_trainable_variables: the call
    coll_call,      \* "idle" before the call, "returned" after it
    modules,        \* argument modules
    var_list,       \* the local set var_list when the loop has ended
    collected,      \* the list returned
    \* ---- T5EncoderDecoder: one object under construction and in use
    t5_pc,          \* position in __init__ (index of the next step)
    t5_args,        \* constructor arguments and the checkpoint on disk
    t5_self,        \* the attributes of self
    t5_params,      \* named_parameters(): name -> parameter state
    t5_before,      \* t5_params as init_pretrained_weights found them
    t5_log          \* the steps of __init__ and the method calls completed

emb_vars  == <<emb_call, hparams, init_value, num_embeds, resolved, initializer,
               applied, embedding, raised, sl_embedding, soft_ids, sl_result>>
coll_vars == <<coll_call, modules, var_list, collected>>
t5_vars   == <<t5_pc, t5_args, t5_self, t5_params, t5_before, t5_log>>
vars      == <<emb_vars, coll_vars, t5_vars>>

-----------------------------------------------------------------------------
(* Bounds of the model. *)

\* Largest vocabulary size (num_embeds, first axis of a table) tried.
MaxVocab == 2
\* Largest single embedding dimension tried.
MaxDim == 2
\* Seeds of the random number generator behind the initializers.
MaxSeed == 1
\* Patterns of tensor contents tried for explicit tensors.
MaxPattern == 4
\* Patterns of weights tried for soft ids.
MaxSoftPattern == 3
\* Longest list of modules given to collect_trainable_variables.
MaxModules == 2

-----------------------------------------------------------------------------
(* Python values. *)

PyNone       == [t |-> "NoneType"]
PyInt(n)     == [t |-> "int", i |-> n]
PyFloat(n)   == [t |-> "float", f |-> n]
PyStr(s)     == [t |-> "str", s |-> s]
PyList(q)    == [t |-> "list", l |-> q]
PyTuple(q)   == [t |-> "tuple", u |-> q]
\* An initializer hyperparameter {"type": name, "kwargs": {}}.
InitSpec(n)  == [t |-> "dict", type |-> n]
PyDict(f)    == [t |-> "dict", kv |-> f]
HParamsOf(f) == [t |-> "HParams", kv |-> f]

Range(q) == {q[k] : k \in 1..Len(q)}

RECURSIVE Prod(_)
Prod(q) == IF q = <<>> THEN 1 ELSE Head(q) * Prod(Tail(q))

\* isinstance(v, (list, tuple))
IsListOrTuple(v) == v.t \in {"list", "tuple"}

-----------------------------------------------------------------------------
(* Tensors. *)

Tensor(shape, data, dtype) == [shape |-> shape, data |-> data, dtype |-> dtype]
NoTensor == [shape |-> <<>>, data |-> <<>>, dtype |-> "none"]

Abs(n) == IF n < 0 THEN -n ELSE n

\* The spacing of single-precision floats around n: 24 significant bits.
RECURSIVE Ulp(_, _)
Ulp(n, p) == IF Abs(n) < p * 16777216 THEN p ELSE Ulp(n, 2 * p)

\* An integer converted to torch.float (round to nearest, ties to even).
ToFloat(n) ==
    LET p == Ulp(n, 1)
        a == Abs(n)
        q == a \div p
        r == a % p
        m == IF 2 * r < p THEN q
             ELSE IF 2 * r > p THEN q + 1
             ELSE IF q % 2 = 0 THEN q ELSE q + 1
    IN  IF n < 0 THEN -(m * p) ELSE m * p

\* tensor.type(torch.float) and torch.tensor(value, dtype=torch.float)
AsFloat(x) == Tensor(x.shape, [k \in 1..Len(x.data) |-> ToFloat(x.data[k])],
                     "float32")

\* Contents number pat of an n-element tensor: the base-3 digits of pat, each
\* shifted to lie in -1..1, with one element beyond the exact range of a
\* single-precision float when pat is the last pattern.
Digit(pat, k) == ((pat \div (3 ^ ((k - 1) % 4))) % 3)
Pattern(pat, n) ==
    [k \in 1..n |-> IF pat = MaxPattern /\ k = 1 THEN 16777217
                    ELSE Digit(pat + (k - 1) \div 4, k) - 1]

\* Weights number pat for soft ids: digits 0..2 (0 and 1 make one-hot rows).
Weights(pat, n) == [k \in 1..n |-> Digit(pat + (k - 1) \div 4, k)]


\* Row-major position (1-based) of the element at index idx, as torch stores
\* a contiguous tensor.
RECURSIVE Offset(_, _)
Offset(idx, shape) ==
    IF idx = <<>> THEN 0
    ELSE (Head(idx) - 1) * Prod(Tail(shape)) + Offset(Tail(idx), Tail(shape))
Flatten(idx, shape) == Offset(idx, shape) + 1

\* Every index of a tensor of the given shape.
RECURSIVE AllIndices(_)
AllIndices(shape) ==
    IF shape = <<>> THEN {<<>>}
    ELSE {<<i>> \o rest : i \in 1..Head(shape), rest \in AllIndices(Tail(shape))}

\* The index of the element at row-major position k.
RECURSIVE Unflatten(_, _)
Unflatten(k, shape) ==
    IF shape = <<>> THEN <<>>
    ELSE LET rest == Prod(Tail(shape))
         IN  <<((k - 1) \div rest) + 1>> \o Unflatten(((k - 1) % rest) + 1, Tail(shape))

\* x[idx]
Get(x, idx) == x.data[Flatten(idx, x.shape)]

\* Single-precision multiply and add: the exact result, rounded.
FMul(a, b) == ToFloat(a * b)
FAdd(a, b) == ToFloat(a + b)

\* Python's wrap of a possibly negative axis number into 1..rank.
WrapDim(d, rank) == IF d < 0 THEN d + rank + 1 ELSE d + 1

\* seq with element v put at position k.
InsertAt(q, k, v) == SubSeq(q, 1, k - 1) \o <<v>> \o SubSeq(q, k, Len(q))
RemoveAt(q, k) == SubSeq(q, 1, k - 1) \o SubSeq(q, k + 1, Len(q))

\* torch.tensordot(a, b, dims=([da], [db])): a is permuted so that its axis
\* da comes last and reshaped to a matrix [m, c], b is permuted so that its
\* axis db comes first and reshaped to [c, n]; the matrix product [m, n], row
\* r times column s summed over the contracted axis in single precision, is
\* reshaped to a's free axes followed by b's free axes.  Raises when an operand
\* has no axis, when the contracted sizes differ or when the dtypes differ.
RECURSIVE DotProduct(_, _, _, _, _, _, _)
DotProduct(a, ia, ra, b, ib, rb, v) ==
    IF v = 0 THEN 0
    ELSE FAdd(DotProduct(a, ia, ra, b, ib, rb, v - 1),
              FMul(Get(a, InsertAt(ra, ia, v)), Get(b, InsertAt(rb, ib, v))))

TensorDot(a, b, da, db) ==
    IF Len(a.shape) = 0 \/ Len(b.shape) = 0
    THEN [raised |-> "RuntimeError", out |-> NoTensor]
    ELSE
    LET ia == WrapDim(da, Len(a.shape))
        ib == WrapDim(db, Len(b.shape))
        fa == RemoveAt(a.shape, ia)
        fb == RemoveAt(b.shape, ib)
        c  == a.shape[ia]
        n  == Prod(fb)
    IN  IF c # b.shape[ib] \/ a.dtype # b.dtype
        THEN [raised |-> "RuntimeError", out |-> NoTensor]
        ELSE [raised |-> "",
              out |-> Tensor(fa \o fb,
                             [k \in 1..(Prod(fa) * n) |->
                                DotProduct(a, ia, Unflatten(((k - 1) \div n) + 1, fa),
                                           b, ib, Unflatten(((k - 1) % n) + 1, fb), c)],
                             a.dtype)]

\* Variant of soft_embedding_lookup that pairs the first axis of soft_ids,
\* not the last, with the table's first axis.
soft_embedding_lookup_dims00(emb, soft) == TensorDot(AsFloat(soft), emb, 0, 0)

\* soft_embedding_lookup(embedding, soft_ids)
soft_embedding_lookup(emb, soft) == TensorDot(AsFloat(soft), emb, -1, 0)

-----------------------------------------------------------------------------
(* Hyperparameters. *)

\* Variant of default_embedding_hparams in which "dim" is not marked opaque.
default_embedding_hparams_typechecked_dim ==
    ("name" :> PyStr("embedding")) @@
    ("dim" :> PyInt(100)) @@
    ("initializer" :> PyNone) @@
    ("dropout_rate" :> PyFloat(0)) @@
    ("dropout_strategy" :> PyStr("element")) @@
    ("@no_typecheck" :> [t |-> "list", names |-> <<>>])

\* default_embedding_hparams(): the dict returned.
default_embedding_hparams ==
    ("name" :> PyStr("embedding")) @@
    ("dim" :> PyInt(100)) @@
    ("initializer" :> PyNone) @@
    ("dropout_rate" :> PyFloat(0)) @@
    ("dropout_strategy" :> PyStr("element")) @@
    ("@no_typecheck" :> [t |-> "list", names |-> <<"dim">>])

\* The keys a schema marks as opaque.
NoTypecheck(default) ==
    IF "@no_typecheck" \in DOMAIN default
    THEN Range(default["@no_typecheck"].names) ELSE {}

\* HParams(user, default): the resolved configuration.  A key of the schema
\* that the caller leaves out takes the default; an opaque key takes the
\* caller's value unchecked; any other caller's value must be of the kind of
\* the default (a None on either side is compatible with anything).  A key
\* that the schema does not have is an error.
HParams(user, default) ==
    LET kv == IF user.t = "NoneType" THEN <<>> ELSE user.kv
        Compatible(k) == \/ k \in NoTypecheck(default)
                         \/ default[k].t = "NoneType"
                         \/ kv[k].t = "NoneType"
                         \/ kv[k].t = default[k].t
    IN  IF \E k \in DOMAIN kv : k \notin DOMAIN default
        THEN [raised |-> "ConfigError", kv |-> <<>>]
        ELSE IF \E k \in DOMAIN kv : ~Compatible(k)
        THEN [raised |-> "ConfigError", kv |-> <<>>]
        ELSE [raised |-> "",
              kv |-> [k \in DOMAIN default |->
                        IF k \in DOMAIN kv THEN kv[k] ELSE default[k]]]

\* The initializing functions a name resolves to (torch.nn.init).
KnownInitializers == {"uniform_", "zeros_"}

PyFunction(n) == [t |-> "function", fn |-> n]

\* layers.get_initializer(hparams): None for None, else the function named.
get_initializer(v) ==
    IF v.t = "NoneType" THEN [raised |-> "", fn |-> PyNone]
    ELSE IF v.type \in KnownInitializers
    THEN [raised |-> "", fn |-> PyFunction(v.type)]
    ELSE [raised |-> "InitializerResolutionError", fn |-> PyNone]

\* Python truth value of the local initializer: None is false, a function true.
Truthy(v) == v.t # "NoneType"

-----------------------------------------------------------------------------
(* torch: allocation and initializers. *)

\* The k-th draw of the random number generator seeded with seed.
RandomData(seed, n) == [k \in 1..n |-> ((seed + k) % 3) - 1]

\* torch.empty(size=size): size must be a list of non-negative ints.  The
\* contents are whatever the memory held: garbage.
torch_empty(size, garbage) ==
    IF \E k \in 1..Len(size) : size[k].t # "int"
    THEN [raised |-> "TypeError", out |-> NoTensor]
    ELSE IF \E k \in 1..Len(size) : size[k].i < 0
    THEN [raised |-> "RuntimeError", out |-> NoTensor]
    ELSE LET shape == [k \in 1..Len(size) |-> size[k].i]
         IN  [raised |-> "",
              out |-> Tensor(shape, [k \in 1..Prod(shape) |-> garbage], "float32")]

\* Variant of ApplyInit for a get_embedding without the else branch of lines
\* 159-160: with no initializer named the table stays as torch.empty left it.
ApplyInitNamedOnly(fn, x, seed) ==
    IF fn = "xavier_uniform_"
    THEN [raised |-> "", out |-> x]
    ELSE IF fn = "zeros_"
    THEN [raised |-> "", out |-> Tensor(x.shape, [k \in 1..Len(x.data) |-> 0], x.dtype)]
    ELSE [raised |-> "", out |-> Tensor(x.shape, RandomData(seed, Len(x.data)), x.dtype)]

\* An initializing function of torch.nn.init applied to x: it fills x in place
\* and returns it.  xavier_uniform_ needs a fan-in and a fan-out, that is at
\* least two axes.
ApplyInit(fn, x, seed) ==
    IF fn = "xavier_uniform_" /\ Len(x.shape) < 2
    THEN [raised |-> "ValueError", out |-> NoTensor]
    ELSE IF fn = "zeros_"
    THEN [raised |-> "", out |-> Tensor(x.shape, [k \in 1..Len(x.data) |-> 0], x.dtype)]
    ELSE [raised |-> "", out |-> Tensor(x.shape, RandomData(seed, Len(x.data)), x.dtype)]

-----------------------------------------------------------------------------
(* get_embedding *)

\* Line 147: hparams is None or isinstance(hparams, dict)
NeedsHParams(hp) == hp.t \in {"NoneType", "dict"}

\* Variant of TableSize without the isinstance test: dim is always wrapped.
TableSizeAlwaysWrapped(ne, dim) == [raised |-> "", size |-> <<ne, dim>>]

\* Lines 152-155: the size handed to torch.empty, [num_embeds] + dim with a
\* dim that is no list or tuple wrapped into a list.  A list cannot be
\* concatenated with a tuple.
TableSize(ne, dim) ==
    IF ~IsListOrTuple(dim) THEN [raised |-> "", size |-> <<ne, dim>>]
    ELSE IF dim.t = "tuple" THEN [raised |-> "TypeError", size |-> <<>>]
    ELSE [raised |-> "",
          size |-> <<ne>> \o [k \in 1..Len(dim.l) |-> PyInt(dim.l[k])]]

\* Variant of FromInitValue that keeps the values and the dtype as given.
FromInitValueNoCast(iv) == iv.x

\* Line 163: torch.tensor(init_value, dtype=torch.float)
FromInitValue(iv) == AsFloat(iv.x)

GeResult(res, ini, app, emb, exc) ==
    [resolved |-> res, initializer |-> ini, applied |-> app,
     embedding |-> emb, raised |-> exc]

NotLookedUp == [t |-> "unset"]

\* get_embedding(hparams, init_value, num_embeds); seed and garbage stand for
\* the state of the random number generator and of the allocator.
get_embedding(hp, iv, ne, seed, garbage) ==
    LET hr == IF NeedsHParams(hp) THEN HParams(hp, default_embedding_hparams)
              ELSE [raised |-> "", kv |-> hp.kv]
        h  == hr.kv
    IN
    IF hr.raised # "" THEN GeResult(h, NotLookedUp, <<>>, NoTensor, hr.raised)
    ELSE IF iv.t = "NoneType" THEN
        LET gi == get_initializer(h["initializer"])
            sz == TableSize(ne, h["dim"])
            em == torch_empty(sz.size, garbage)
            fn == IF Truthy(gi.fn) THEN gi.fn.fn ELSE "xavier_uniform_"
            ap == ApplyInit(fn, em.out, seed)
        IN  IF gi.raised # "" THEN GeResult(h, NotLookedUp, <<>>, NoTensor, gi.raised)
            ELSE IF sz.raised # "" THEN GeResult(h, gi.fn, <<>>, NoTensor, sz.raised)
            ELSE IF em.raised # "" THEN GeResult(h, gi.fn, <<>>, NoTensor, em.raised)
            ELSE IF ap.raised # "" THEN GeResult(h, gi.fn, <<>>, NoTensor, ap.raised)
            ELSE GeResult(h, gi.fn, <<fn>>, ap.out, "")
    ELSE GeResult(h, NotLookedUp, <<>>, FromInitValue(iv), "")

-----------------------------------------------------------------------------
(* The calls of embedder_utils that are tried. *)

\* Sequences over S of length 0..n.
RECURSIVE SeqsUpTo(_, _)
SeqsUpTo(S, n) ==
    IF n = 0 THEN {<<>>}
    ELSE LET shorter == SeqsUpTo(S, n - 1)
         IN  shorter \cup {<<x>> \o q : x \in S, q \in {r \in shorter : Len(r) = n - 1}}

DimSeqs == SeqsUpTo(1..MaxDim, 2)

DimValues == {PyInt(d) : d \in 1..MaxDim}
             \cup {PyList(q) : q \in DimSeqs} \cup {PyTuple(q) : q \in DimSeqs}

InitializerValues ==
    {PyNone, InitSpec("uniform_"), InitSpec("zeros_"), InitSpec("no_such_initializer")}

\* Dicts with the keys "dim" and "initializer", each present or left out.
BaseDicts ==
    {<<>>}
    \cup {("dim" :> d) : d \in DimValues}
    \cup {("initializer" :> i) : i \in InitializerValues}
    \cup {("dim" :> d) @@ ("initializer" :> i) : d \in DimValues, i \in InitializerValues}

\* The same with a well-typed "name", an ill-typed "name" or an unknown key.
ExtraDicts ==
    {f @@ e : f \in {<<>>} \cup {("dim" :> d) : d \in DimValues},
              e \in {("name" :> PyStr("emb")), ("name" :> PyInt(5)),
                     ("vocab" :> PyInt(5))}}

HParamsInputs ==
    {PyNone}
    \cup {PyDict(f) : f \in BaseDicts \cup ExtraDicts}
    \cup {HParamsOf(HParams(PyDict("dim" :> d), default_embedding_hparams).kv) :
            d \in DimValues}

PyArray(x) == [t |-> "ndarray", x |-> x]

\* Initial values: integer arrays of shape [V, E].
InitValueInputs ==
    {PyNone}
    \cup {PyArray(Tensor(<<v, e>>, Pattern(pat, v * e), "int64")) :
            v \in 1..MaxVocab, e \in 1..MaxDim, pat \in 0..MaxPattern}

NumEmbedsInputs == {PyNone} \cup {PyInt(v) : v \in 1..MaxVocab}

\* What freshly allocated memory holds, and the seeds that matter to a call.
Garbage(seed) == IF seed % 2 = 0 THEN -3 ELSE 3
Seeds(iv) == IF iv.t = "NoneType" THEN 0..MaxSeed ELSE {0}

\* Tables [V] + D and soft ids L + [V']; D and L have up to two axes (L: no
\* axis, a batch axis, or a batch and a time axis).
LeadingShapes == SeqsUpTo(1..2, 2)

TableInputs ==
    {Tensor(<<v>> \o d, AsFloat(Tensor(<<>>, Pattern(pat, v * Prod(d)), "int64")).data,
            "float32") :
        v \in 1..MaxVocab, d \in DimSeqs, pat \in 0..MaxPattern}
    \cup {Tensor(<<v>>, Pattern(0, v), "float64") : v \in 1..MaxVocab}
    \cup {Tensor(<<>>, Pattern(0, 1), "float32")}

SoftIdsInputs ==
    {Tensor(l \o <<v>>, Weights(pat, v * Prod(l)),
            IF pat % 2 = 0 THEN "float32" ELSE "int64") :
        v \in 1..MaxVocab, l \in LeadingShapes, pat \in 0..MaxSoftPattern}

EmbIdle == emb_call = "idle"

GetEmbedding ==
    /\ EmbIdle
    /\ \E hp \in HParamsInputs, iv \in InitValueInputs, ne \in NumEmbedsInputs :
        \E seed \in Seeds(iv) :
          LET r == get_embedding(hp, iv, ne, seed, Garbage(seed))
          IN  /\ emb_call' = "get_embedding"
              /\ hparams' = hp
              /\ init_value' = iv
              /\ num_embeds' = ne
              /\ resolved' = r.resolved
              /\ initializer' = r.initializer
              /\ applied' = r.applied
              /\ embedding' = r.embedding
              /\ raised' = r.raised
    /\ UNCHANGED <<sl_embedding, soft_ids, sl_result>>
    /\ UNCHANGED <<coll_vars, t5_vars>>

SoftEmbeddingLookup ==
    /\ EmbIdle
    /\ \E emb \in TableInputs, soft \in SoftIdsInputs :
          LET r == soft_embedding_lookup(emb, soft)
          IN  /\ emb_call' = "soft_embedding_lookup"
              /\ sl_embedding' = emb
              /\ soft_ids' = soft
              /\ sl_result' = r.out
              /\ raised' = r.raised
    /\ UNCHANGED <<hparams, init_value, num_embeds, resolved, initializer,
                   applied, embedding>>
    /\ UNCHANGED <<coll_vars, t5_vars>>

EmbInit ==
    /\ emb_call = "idle"
    /\ hparams = PyNone
    /\ init_value = PyNone
    /\ num_embeds = PyNone
    /\ resolved = <<>>
    /\ initializer = NotLookedUp
    /\ applied = <<>>
    /\ embedding = NoTensor
    /\ raised = ""
    /\ sl_embedding = NoTensor
    /\ soft_ids = NoTensor
    /\ sl_result = NoTensor

CollInit ==
    /\ coll_call = "idle"
    /\ modules = <<>>
    /\ var_list = <<>>
    /\ collected = <<>>

T5Init ==
    /\ t5_pc = 0
    /\ t5_args = <<>>
    /\ t5_self = [_hparams |-> <<>>, pretrained_model_name |-> PyNone,
                  word_embedder |-> PyNone, encoder |-> PyNone,
                  decoder |-> PyNone, reinitialized |-> {}, raised |-> ""]
    /\ t5_params = <<>>
    /\ t5_before = <<>>
    /\ t5_log = <<>>

Init == EmbInit /\ CollInit /\ T5Init

NextEmb == GetEmbedding \/ SoftEmbeddingLookup

\* The calls of embedder_utils.
SpecEmb == Init /\ [][NextEmb]_vars

-----------------------------------------------------------------------------
(* Properties of get_embedding and soft_embedding_lookup. *)

Last(q) == q[Len(q)]
Front(q) == SubSeq(q, 1, Len(q) - 1)

\* The call was get_embedding with a fresh table asked for: no init_value, an
\* integer num_embeds, a configuration that resolves, an initializer that is
\* None or resolves, and a "dim" that is an integer or a list [E1, ..., Ek]
\* with k >= 1.
FreshTableCall ==
    /\ emb_call = "get_embedding"
    /\ init_value = PyNone
    /\ num_embeds.t = "int"
    /\ raised \notin {"ConfigError", "InitializerResolutionError"}
    /\ \/ resolved["dim"].t = "int"
       \/ resolved["dim"].t = "list" /\ Len(resolved["dim"].l) >= 1

\* C2: get_embedding without init_value, with num_embeds = V and a resolved
\* "dim" that is an integer E or a list [E1, ..., Ek], returns a table of shape
\* [V, E] respectively [V, E1, ..., Ek].
C2_FreshTableShape ==
    FreshTableCall =>
        /\ raised = ""
        /\ embedding.shape =
              IF resolved["dim"].t = "int"
              THEN <<num_embeds.i, resolved["dim"].i>>
              ELSE <<num_embeds.i>> \o resolved["dim"].l

\* A fresh table was returned for a two-axis list "dim" whose axes differ.
C2_Witness ==
    /\ FreshTableCall
    /\ raised = ""
    /\ resolved["dim"].t = "list"
    /\ Len(resolved["dim"].l) = 2
    /\ resolved["dim"].l[1] # resolved["dim"].l[2]
    /\ Len(embedding.shape) = 3

\* The call was get_embedding with an init_value and a configuration that
\* holds nothing but "dim" and "initializer".
InitValueCall ==
    /\ emb_call = "get_embedding"
    /\ init_value # PyNone
    /\ \/ hparams.t # "dict"
       \/ DOMAIN hparams.kv \subseteq {"dim", "initializer"}

\* C3: get_embedding with an init_value returns init_value's shape and its
\* values cast to single precision, whatever "dim", "initializer" and
\* num_embeds are; no initializer is looked up and none is applied.
C3_InitValueReturned ==
    InitValueCall =>
        /\ raised = ""
        /\ embedding.shape = init_value.x.shape
        /\ embedding.dtype = "float32"
        /\ embedding.data =
              [k \in 1..Len(init_value.x.data) |-> ToFloat(init_value.x.data[k])]
        /\ initializer = NotLookedUp
        /\ applied = <<>>

\* An init_value with an element that single precision cannot hold was given
\* together with a "dim" of another shape, an initializer that does not
\* resolve and a num_embeds that is not the init_value's first axis.
C3_Witness ==
    /\ InitValueCall
    /\ hparams.t = "dict"
    /\ DOMAIN hparams.kv = {"dim", "initializer"}
    /\ hparams.kv["dim"] = PyList(<<1, 1>>)
    /\ hparams.kv["initializer"] = InitSpec("no_such_initializer")
    /\ init_value.x.shape = <<2, 2>>
    /\ init_value.x.data[1] = 16777217
    /\ num_embeds = PyInt(1)
    /\ embedding.shape = <<2, 2>>
    /\ embedding.data[1] = 16777216

\* The call was soft_embedding_lookup with a table [V] + D in single precision
\* and soft ids L + [V].
SoftCall ==
    /\ emb_call = "soft_embedding_lookup"
    /\ sl_embedding.dtype = "float32"
    /\ Len(sl_embedding.shape) >= 1
    /\ Len(soft_ids.shape) >= 1
    /\ Last(soft_ids.shape) = Head(sl_embedding.shape)

\* sum over v of soft_ids[l, v] * embedding[v, d], in single precision.
WeightedSum(l, d) ==
    LET acc[v \in 0..Head(sl_embedding.shape)] ==
            IF v = 0 THEN 0
            ELSE FAdd(acc[v - 1],
                      FMul(ToFloat(Get(soft_ids, l \o <<v>>)),
                           Get(sl_embedding, <<v>> \o d)))
    IN  acc[Head(sl_embedding.shape)]

\* soft_ids[l] has weight 1 at i and weight 0 everywhere else.
OneHot(l, i) ==
    \A v \in 1..Head(sl_embedding.shape) :
        Get(soft_ids, l \o <<v>>) = (IF v = i THEN 1 ELSE 0)

\* C4: for a table of shape [V] + D and soft ids of shape L + [V],
\* soft_embedding_lookup returns a tensor of shape L + D whose entry at l is
\* the sum over v of soft_ids[l, v] * embedding[v]; where soft_ids[l] is
\* one-hot at i the entry is embedding[i].
C4_SoftLookup ==
    SoftCall =>
        LET L == Front(soft_ids.shape)
            D == Tail(sl_embedding.shape)
        IN  /\ raised = ""
            /\ sl_result.shape = L \o D
            /\ Len(sl_result.data) = Prod(L \o D)
            /\ \A l \in AllIndices(L), d \in AllIndices(D) :
                  /\ Get(sl_result, l \o d) = WeightedSum(l, d)
                  /\ \A i \in 1..Head(sl_embedding.shape) :
                        OneHot(l, i) =>
                            Get(sl_result, l \o d) = Get(sl_embedding, <<i>> \o d)

\* A lookup with two leading axes and a table [2, 2] whose rows differ, in
\* which some position is one-hot at the second row and another is not one-hot.
C4_Witness ==
    /\ SoftCall
    /\ raised = ""
    /\ Len(soft_ids.shape) = 3
    /\ sl_embedding.shape = <<2, 2>>
    /\ Get(sl_embedding, <<1, 1>>) # Get(sl_embedding, <<2, 1>>)
    /\ \E l \in AllIndices(Front(soft_ids.shape)) : OneHot(l, 2)
    /\ \E l \in AllIndices(Front(soft_ids.shape)) :
          \A i \in 1..2 : ~OneHot(l, i)

\* The call was get_embedding with a valid partial configuration: None, or a
\* dict whose keys are keys of the schema and whose values, "dim" apart, are
\* of the kind the schema gives the key.
ValidPartialCall ==
    /\ emb_call = "get_embedding"
    /\ hparams.t \in {"NoneType", "dict"}
    /\ hparams.t = "dict" =>
          /\ DOMAIN hparams.kv \subseteq
                {"name", "dim", "initializer", "dropout_rate",
                 "dropout_strategy", "@no_typecheck"}
          /\ "name" \in DOMAIN hparams.kv => hparams.kv["name"].t = "str"

\* The schema's defaults, as default_embedding_hparams documents them.
SchemaDefault(k) ==
    CASE k = "name" -> PyStr("embedding")
      [] k = "dim" -> PyInt(100)
      [] k = "initializer" -> PyNone
      [] k = "dropout_rate" -> PyFloat(0)
      [] k = "dropout_strategy" -> PyStr("element")
      [] k = "@no_typecheck" -> [t |-> "list", names |-> <<"dim">>]

TableAllocated ==
    /\ emb_call = "get_embedding"
    /\ init_value = PyNone
    /\ raised \in {"", "ValueError"}

\* The initializer lines 157-160 are to apply for the resolved configuration.
ExpectedInitializer ==
    IF resolved["initializer"] = PyNone THEN "xavier_uniform_"
    ELSE resolved["initializer"].type

\* The values are values an initializer wrote, none is what torch.empty left.
Initialized(x) ==
    \A k \in 1..Len(x.data) :
        /\ x.data[k] \in -1..1
        /\ x.data[k] \notin {Garbage(seed) : seed \in 0..MaxSeed}

Entries(d) == IF d.t = "list" THEN d.l ELSE d.u

\* The call was get_embedding without init_value, with an integer num_embeds,
\* a configuration and an initializer that resolve, and a "dim" that line 153
\* takes for a sequence: a list or a tuple, here of at least one entry.
SequenceDimCall ==
    /\ emb_call = "get_embedding"
    /\ init_value = PyNone
    /\ num_embeds.t = "int"
    /\ raised \notin {"ConfigError", "InitializerResolutionError"}
    /\ IsListOrTuple(resolved["dim"])
    /\ Len(Entries(resolved["dim"])) >= 1

\* C13: for a "dim" that is a list or a tuple of integers, without init_value
\* and with num_embeds = V, get_embedding succeeds and returns a table of
\* shape [V] followed by the entries of dim, the same for a tuple as for the
\* list with the same entries.
C13_SequenceDimShape ==
    SequenceDimCall =>
        /\ raised = ""
        /\ embedding.shape = <<num_embeds.i>> \o Entries(resolved["dim"])

\* For a tuple "dim" the call ends in line 155 with a TypeError.
TupleDimRaises ==
    SequenceDimCall /\ resolved["dim"].t = "tuple" =>
        raised = "TypeError" /\ embedding = NoTensor

-----------------------------------------------------------------------------
(* variables.py: add_variable and collect_trainable_variables. *)

\* An nn.Parameter is an object: id is its identity.  Lists and tuples of
\* parameters (and of lists) keep their elements in items.
Param(id)     == [t |-> "Parameter", id |-> id]
ListOf(q)     == [t |-> "list", items |-> q]
TupleOf(q)    == [t |-> "tuple", items |-> q]
Module(tv)    == [t |-> "Module", trainable_variables |-> tv]

\* The value a parameter holds: parameters 1 and 2 are two objects that hold
\* equal values.
ParamValue(id) == IF id \in {1, 2} THEN 0 ELSE id

\* Variant of InSet for parameters that hash and compare by the value held.
InSetByValue(x, set) == \E k \in 1..Len(set) : ParamValue(set[k].id) = ParamValue(x.id)

\* A Python set is a collection without duplicates that is iterated in the
\* order of its table: a sequence of distinct elements.  A parameter hashes
\* by identity, so membership compares identities.
InSet(x, set) == \E k \in 1..Len(set) : set[k].id = x.id
SetAdd(set, x) == IF InSet(x, set) THEN set ELSE Append(set, x)

\* Variant of add_variable for a var_list that is a list and is appended to
\* without the membership test.
RECURSIVE add_variable_unchecked(_, _)
add_variable_unchecked(variable, set) ==
    IF IsListOrTuple(variable)
    THEN LET loop[k \in 0..Len(variable.items)] ==
                IF k = 0 THEN set
                ELSE add_variable_unchecked(variable.items[k], loop[k - 1])
         IN  loop[Len(variable.items)]
    ELSE Append(set, variable)

\* add_variable(variable, var_list): var_list after the call.
RECURSIVE add_variable(_, _)
add_variable(variable, set) ==
    IF IsListOrTuple(variable)
    THEN LET loop[k \in 0..Len(variable.items)] ==
                IF k = 0 THEN set
                ELSE add_variable(variable.items[k], loop[k - 1])
         IN  loop[Len(variable.items)]
    ELSE IF ~InSet(variable, set) THEN SetAdd(set, variable) ELSE set

\* collect_trainable_variables(modules): var_list when the loop has ended.
collect_trainable_variables(mods) ==
    LET ms == IF ~IsListOrTuple(mods) THEN <<mods>> ELSE mods.items
        loop[k \in 0..Len(ms)] ==
            IF k = 0 THEN <<>>
            ELSE add_variable(ms[k].trainable_variables, loop[k - 1])
    IN  loop[Len(ms)]

\* list(var_list): the elements of the set, each once per slot of the table,
\* in an order the caller cannot rely on.
ListsOf(set) ==
    {[k \in 1..Len(set) |-> set[f[k]]] :
        f \in {g \in [1..Len(set) -> 1..Len(set)] :
                 \A i, j \in 1..Len(set) : g[i] = g[j] => i = j}}

\* The trainable_variables of the modules tried: flat lists, a list that names
\* a parameter twice, nested lists and tuples, the empty list.  Parameter 1 is
\* the tied embedding table.
TrainableVariablesInputs ==
    {ListOf(<<Param(1)>>),
     ListOf(<<Param(1), Param(2)>>),
     ListOf(<<Param(3), Param(1)>>),
     ListOf(<<Param(2), Param(3), Param(2)>>),
     ListOf(<<ListOf(<<Param(1), Param(3)>>), Param(3)>>),
     TupleOf(<<Param(2), TupleOf(<<ListOf(<<Param(1)>>), Param(2)>>)>>),
     ListOf(<<>>)}

ModuleInputs == {Module(tv) : tv \in TrainableVariablesInputs}

ModulesInputs ==
    ModuleInputs
    \cup {ListOf(q) : q \in SeqsUpTo(ModuleInputs, MaxModules)}
    \cup {TupleOf(<<m, m>>) : m \in ModuleInputs}

CollectTrainableVariables ==
    /\ coll_call = "idle"
    /\ \E mods \in ModulesInputs :
          LET set == collect_trainable_variables(mods)
          IN  /\ modules' = mods
              /\ var_list' = set
              /\ \E out \in ListsOf(set) : collected' = out
    /\ coll_call' = "returned"
    /\ UNCHANGED <<emb_vars, t5_vars>>

NextColl == CollectTrainableVariables

\* The calls of collect_trainable_variables.
SpecColl == Init /\ [][NextColl]_vars

\* The parameters a value of trainable_variables reports, with how often.
RECURSIVE Reported(_)
Reported(variable) ==
    IF IsListOrTuple(variable)
    THEN UNION {Reported(variable.items[k]) : k \in 1..Len(variable.items)}
    ELSE {variable.id}

\* The modules of the call, as a sequence.
ModulesGiven == IF IsListOrTuple(modules) THEN modules.items ELSE <<modules>>

\* How often parameter id occurs in the returned list.
Occurrences(id) == Cardinality({k \in 1..Len(collected) : collected[k].id = id})

\* The modules (by position) that report parameter id.
Reporters(id) ==
    {m \in 1..Len(ModulesGiven) : id \in Reported(ModulesGiven[m].trainable_variables)}

\* C1: a trainable parameter that more than one module reports, or that one
\* module reports more than once, occurs exactly once in the list returned.
C1_SharedOnce ==
    coll_call = "returned" =>
        \A m \in 1..Len(ModulesGiven) :
            \A id \in Reported(ModulesGiven[m].trainable_variables) :
                Occurrences(id) = 1

\* Two modules that share parameter 1, one of which names parameter 3 twice,
\* were collected, and three parameters were returned.
C1_Witness ==
    /\ coll_call = "returned"
    /\ Cardinality(Reporters(1)) >= 2
    /\ \E m \in 1..Len(ModulesGiven) :
          ModulesGiven[m].trainable_variables =
              ListOf(<<ListOf(<<Param(1), Param(3)>>), Param(3)>>)
    /\ Len(collected) = 3

\* The parameters (by identity) that the modules of the call report.
ReportedByModules ==
    UNION {Reported(ModulesGiven[m].trainable_variables) : m \in 1..Len(ModulesGiven)}

\* The parameters (by identity) in the list returned.
CollectedIds == {collected[k].id : k \in 1..Len(collected)}

\* C12: the parameters collect_trainable_variables returns are exactly the
\* union of the trainable parameters of the modules given, each once, whatever
\* the nesting of lists and tuples and the order of the modules; a parameter
\* is told from another by identity, so two parameters that hold equal values
\* are both returned.
C12_ExactUnion ==
    coll_call = "returned" =>
        /\ CollectedIds = ReportedByModules
        /\ Len(collected) = Cardinality(ReportedByModules)
        /\ \A i, j \in ReportedByModules :
              i # j /\ ParamValue(i) = ParamValue(j) =>
                  Occurrences(i) = 1 /\ Occurrences(j) = 1

\* Two modules were given, the first reporting parameters 2 and 1 in nested
\* tuples and lists, the second parameters 3 and 1; parameters 1 and 2 hold
\* equal values and all three parameters were returned.
C12_Witness ==
    /\ coll_call = "returned"
    /\ modules.t = "list"
    /\ Len(modules.items) = 2
    /\ modules.items[1].trainable_variables =
          TupleOf(<<Param(2), TupleOf(<<ListOf(<<Param(1)>>), Param(2)>>)>>)
    /\ modules.items[2].trainable_variables = ListOf(<<Param(3), Param(1)>>)
    /\ ParamValue(1) = ParamValue(2)
    /\ CollectedIds = {1, 2, 3}
    /\ Len(collected) = 3

-----------------------------------------------------------------------------
(* T5EncoderDecoder: the module graph. *)

\* The presets of the registry of pretrained models: the structural fields a
\* preset fixes.
PretrainedModels == {"T5-Small"}
Preset(name) == [dim |-> 1, vocab_size |-> 2]

\* A parameter of the graph: the components of its dotted name, what it is,
\* its shape, and where its values come from ("default": the module's own
\* initialization, "initializer": the module-global initializer, "checkpoint").
Parameter(path, kind, shape) ==
    [path |-> path, kind |-> kind, shape |-> shape, value |-> "default"]

\* The parameters WordEmbedder(vocab_size, hparams.embed) registers.
WordEmbedderParams(vocab_size, embed) ==
    ("word_embedder._embedding" :>
        Parameter(<<"word_embedder", "_embedding">>, "embedding",
                  <<vocab_size, embed.dim>>))

\* The parameters a transformer stack registers: a dense layer with an
\* optional bias, and a normalization layer.
StackParams(prefix, hp) ==
    LET dense ==
            (prefix \o ".self_attns.0.Q_dense.weight" :>
                Parameter(<<prefix, "self_attns", "0", "Q_dense", "weight">>,
                          "weight", <<hp.dim, hp.dim>>))
        bias ==
            (prefix \o ".self_attns.0.Q_dense.bias" :>
                Parameter(<<prefix, "self_attns", "0", "Q_dense", "bias">>,
                          "bias", <<hp.dim>>))
        norm ==
            (prefix \o ".final_layer_norm.weight" :>
                Parameter(<<prefix, "final_layer_norm", "weight">>,
                          "norm", <<hp.dim>>)) @@
            (prefix \o ".final_layer_norm.bias" :>
                Parameter(<<prefix, "final_layer_norm", "bias">>,
                          "norm", <<hp.dim>>))
    IN  IF hp.use_bias THEN dense @@ bias @@ norm ELSE dense @@ norm

\* A row of an embedding table: the table's values at a token id.
Lookup(param, token) == [value |-> param.value, row |-> token]

\* WordEmbedder.forward(tokens): the rows of the embedder's table.
WordEmbedderCall(embedder, tokens) ==
    [k \in 1..Len(tokens) |-> Lookup(t5_params[embedder.table], tokens[k])]

\* Lines 86-89: _embedding_fn reads self.word_embedder when it is called.
_embedding_fn(tokens) == WordEmbedderCall(t5_self.word_embedder, tokens)

\* A call of the function a decoder holds as its token embedder.
CallTokenEmbedder(fn, tokens) ==
    IF fn.t = "method" THEN _embedding_fn(tokens)
    ELSE [k \in 1..Len(tokens) |-> Lookup(fn.table, tokens[k])]

\* Variant of T5DecoderArgs that hands the decoder a copy of the embedding
\* table as it is when the decoder is constructed.
T5DecoderArgsCopiedTable ==
    [token_embedder |-> [t |-> "copy",
                         table |-> t5_params[t5_self.word_embedder.table]],
     output_layer |-> "identity",
     hparams |-> t5_self._hparams.decoder]

\* Lines 79-82: the arguments of T5Decoder(...).
T5DecoderArgs ==
    [token_embedder |-> [t |-> "method", self |-> "T5EncoderDecoder",
                         name |-> "_embedding_fn"],
     output_layer |-> "identity",
     hparams |-> t5_self._hparams.decoder]

\* Variant of T5InitSteps that constructs the encoder before the embedder.
T5InitStepsEncoderFirst ==
    <<"super().__init__", "load_pretrained_config", "encoder", "word_embedder",
      "decoder", "init_pretrained_weights">>

\* Lines 66-84: the statements of __init__, in order.
T5InitSteps ==
    <<"super().__init__", "load_pretrained_config", "word_embedder", "encoder",
      "decoder", "init_pretrained_weights">>

\* __init__ is at the statement named.
At(step) == t5_pc \in 1..Len(T5InitSteps) /\ T5InitSteps[t5_pc] = step
Constructed == t5_pc = Len(T5InitSteps) + 1

\* The components of parameter names that contain the text layer_norm.
LayerNormComponents == {"final_layer_norm", "self_attn_layer_norm", "layer_norm"}

\* 'layer_norm' in name
ContainsLayerNorm(path) == \E k \in 1..Len(path) : path[k] \in LayerNormComponents

\* Variant of ShouldInitialize that does not spare the normalization layers.
ShouldInitializeAnyWeight(path) == path[Len(path)] = "weight"

\* Line 96: name.split('.')[-1] == 'weight' and 'layer_norm' not in name
ShouldInitialize(path) == path[Len(path)] = "weight" /\ ~ContainsLayerNorm(path)

\* named_parameters() yields the parameters in the order of registration.
AllNames ==
    <<"word_embedder._embedding",
      "encoder.self_attns.0.Q_dense.weight", "encoder.self_attns.0.Q_dense.bias",
      "encoder.final_layer_norm.weight", "encoder.final_layer_norm.bias",
      "decoder.self_attns.0.Q_dense.weight", "decoder.self_attns.0.Q_dense.bias",
      "decoder.final_layer_norm.weight", "decoder.final_layer_norm.bias">>

NamesInOrder(P) == SelectSeq(AllNames, LAMBDA n : n \in DOMAIN P)

\* load_pretrained_config(pretrained_model_name, cache_dir): the constructor's
\* name wins over the name in hparams; with a name, the preset replaces the
\* structural fields of the configuration; a name the registry does not have
\* is an error.
load_pretrained_config(name_arg, hp) ==
    LET name == IF name_arg # PyNone THEN name_arg ELSE hp.pretrained_model_name
    IN  IF name = PyNone
        THEN [raised |-> "", name |-> PyNone, hparams |-> hp]
        ELSE IF name.s \notin PretrainedModels
        THEN [raised |-> "UnknownPretrainedModelError", name |-> name, hparams |-> hp]
        ELSE [raised |-> "", name |-> name,
              hparams |-> [hp EXCEPT !.pretrained_model_name = name,
                                     !.embed.dim = Preset(name.s).dim,
                                     !.encoder.dim = Preset(name.s).dim,
                                     !.decoder.dim = Preset(name.s).dim,
                                     !.vocab_size = Preset(name.s).vocab_size]]

\* The checkpoint's assignments applied one after the other, stopping at the
\* first whose shape disagrees.
ApplyAssignmentsInTurn(P, ckpt) ==
    LET names == NamesInOrder(P)
        step[k \in 0..Len(names)] ==
            IF k = 0 THEN [raised |-> "", params |-> P]
            ELSE LET prev == step[k - 1]
                     n == names[k]
                 IN  IF prev.raised # "" \/ n \notin DOMAIN ckpt THEN prev
                     ELSE IF ckpt[n] # P[n].shape
                     THEN [prev EXCEPT !.raised = "ShapeMismatchError"]
                     ELSE [prev EXCEPT !.params[n].value = "checkpoint"]
    IN  step[Len(names)]

\* The checkpoint's assignments applied to the graph: every assignment is
\* validated against the shape of its parameter before any value is copied;
\* parameters the checkpoint does not name are left as they are.
ApplyAssignments(P, ckpt) ==
    IF \E n \in DOMAIN ckpt \cap DOMAIN P : ckpt[n] # P[n].shape
    THEN [raised |-> "ShapeMismatchError", params |-> P]
    ELSE [raised |-> "",
          params |-> [n \in DOMAIN P |->
                        IF n \in DOMAIN ckpt
                        THEN [P[n] EXCEPT !.value = "checkpoint"] ELSE P[n]]]

\* Restriction of a function to a set of arguments.
Restrict(f, S) == [x \in S |-> f[x]]

\* The checkpoints tried for a graph P: one that names every parameter, one
\* that names the embedding table and the dense weights only, and two with a
\* tensor of shape [A, B + 1] for a parameter of shape [A, B].
Checkpoints(P) ==
    LET full == [n \in DOMAIN P |-> P[n].shape]
        wide(n) == [full EXCEPT ![n] = <<full[n][1], full[n][2] + 1>>]
    IN  {full,
         Restrict(full, {n \in DOMAIN P : P[n].kind \in {"embedding", "weight"}}),
         wide("word_embedder._embedding"),
         wide("decoder.self_attns.0.Q_dense.weight")}

-----------------------------------------------------------------------------
(* T5EncoderDecoder: __init__ and reset_parameters. *)

T5HParamsInputs ==
    {[pretrained_model_name |-> pmn,
      embed |-> [dim |-> e],
      vocab_size |-> 2,
      encoder |-> [dim |-> ed, use_bias |-> b],
      decoder |-> [dim |-> dd, use_bias |-> b],
      initializer |-> ini] :
        pmn \in {PyNone, PyStr("T5-Small")},
        e \in 1..MaxDim, ed \in 1..MaxDim, dd \in 1..MaxDim,
        b \in BOOLEAN,
        ini \in {PyNone, InitSpec("uniform_")}}

PretrainedNameInputs == {PyNone, PyStr("T5-Small"), PyStr("T5-Unknown")}

Running == t5_self.raised = ""

Advance(step) ==
    /\ t5_pc' = t5_pc + 1
    /\ t5_log' = Append(t5_log, step)

Raise(exc) ==
    /\ t5_self' = [t5_self EXCEPT !.raised = exc]
    /\ UNCHANGED <<t5_pc, t5_log>>

\* T5EncoderDecoder(pretrained_model_name, cache_dir, hparams) is called.
T5New ==
    /\ t5_pc = 0
    /\ \E name \in PretrainedNameInputs, hp \in T5HParamsInputs :
          t5_args' = [pretrained_model_name |-> name, hparams |-> hp,
                      checkpoint |-> <<>>]
    /\ t5_pc' = 1
    /\ UNCHANGED <<t5_self, t5_params, t5_before, t5_log>>
    /\ UNCHANGED <<emb_vars, coll_vars>>

\* Line 66: super().__init__(hparams=hparams)
T5SuperInit ==
    /\ Running /\ At("super().__init__")
    /\ t5_self' = [t5_self EXCEPT !._hparams = t5_args.hparams]
    /\ Advance("super().__init__")
    /\ UNCHANGED <<t5_args, t5_params, t5_before>>
    /\ UNCHANGED <<emb_vars, coll_vars>>

\* Line 68: self.load_pretrained_config(pretrained_model_name, cache_dir)
T5LoadPretrainedConfig ==
    /\ Running /\ At("load_pretrained_config")
    /\ LET r == load_pretrained_config(t5_args.pretrained_model_name,
                                       t5_self._hparams)
       IN  IF r.raised # "" THEN Raise(r.raised)
           ELSE /\ t5_self' = [t5_self EXCEPT !._hparams = r.hparams,
                                              !.pretrained_model_name = r.name]
                /\ Advance("load_pretrained_config")
    /\ UNCHANGED <<t5_args, t5_params, t5_before>>
    /\ UNCHANGED <<emb_vars, coll_vars>>

\* Lines 71-73: self.word_embedder = WordEmbedder(vocab_size, hparams.embed)
T5WordEmbedder ==
    /\ Running /\ At("word_embedder")
    /\ t5_self' = [t5_self EXCEPT !.word_embedder =
                      [t |-> "WordEmbedder", table |-> "word_embedder._embedding",
                       dim |-> t5_self._hparams.embed.dim]]
    /\ t5_params' = t5_params @@ WordEmbedderParams(t5_self._hparams.vocab_size,
                                                     t5_self._hparams.embed)
    /\ Advance("word_embedder")
    /\ UNCHANGED <<t5_args, t5_before>>
    /\ UNCHANGED <<emb_vars, coll_vars>>

\* Line 76: self.encoder = T5Encoder(hparams=self._hparams.encoder)
T5Encoder ==
    /\ Running /\ At("encoder")
    /\ t5_self' = [t5_self EXCEPT !.encoder =
                      [t |-> "T5Encoder", dim |-> t5_self._hparams.encoder.dim]]
    /\ t5_params' = t5_params @@ StackParams("encoder", t5_self._hparams.encoder)
    /\ Advance("encoder")
    /\ UNCHANGED <<t5_args, t5_before>>
    /\ UNCHANGED <<emb_vars, coll_vars>>

\* Lines 79-82: self.decoder = T5Decoder(token_embedder=self._embedding_fn,
\* output_layer=identity, hparams=self._hparams.decoder)
T5Decoder ==
    /\ Running /\ At("decoder")
    /\ LET a == T5DecoderArgs
       IN  t5_self' = [t5_self EXCEPT !.decoder =
                          [t |-> "T5Decoder", dim |-> a.hparams.dim,
                           token_embedder |-> a.token_embedder,
                           output_layer |-> a.output_layer]]
    /\ t5_params' = t5_params @@ StackParams("decoder", t5_self._hparams.decoder)
    /\ Advance("decoder")
    /\ UNCHANGED <<t5_args, t5_before>>
    /\ UNCHANGED <<emb_vars, coll_vars>>

\* Line 84: self.init_pretrained_weights().  With a pretrained model the
\* checkpoint found on disk is applied to the graph; without one the
\* parameters stay as constructed.
T5InitPretrainedWeights ==
    /\ Running /\ At("init_pretrained_weights")
    /\ t5_before' = t5_params
    /\ IF t5_self.pretrained_model_name = PyNone
       THEN /\ Advance("init_pretrained_weights")
            /\ UNCHANGED <<t5_args, t5_self, t5_params>>
       ELSE \E ckpt \in Checkpoints(t5_params) :
              LET r == ApplyAssignments(t5_params, ckpt)
              IN  /\ t5_args' = [t5_args EXCEPT !.checkpoint = ckpt]
                  /\ t5_params' = r.params
                  /\ IF r.raised # "" THEN Raise(r.raised)
                     ELSE Advance("init_pretrained_weights") /\ UNCHANGED t5_self
    /\ UNCHANGED <<emb_vars, coll_vars>>

\* Lines 91-97: reset_parameters(), called on the constructed model.
ResetParameters ==
    /\ Running /\ Constructed
    /\ "reset_parameters" \notin Range(t5_log)
    /\ LET initialize == get_initializer(t5_self._hparams.initializer).fn
           chosen == IF initialize # PyNone
                     THEN {n \in DOMAIN t5_params : ShouldInitialize(t5_params[n].path)}
                     ELSE {}
       IN  /\ t5_params' = [n \in DOMAIN t5_params |->
                              IF n \in chosen
                              THEN [t5_params[n] EXCEPT !.value = "initializer"]
                              ELSE t5_params[n]]
           /\ t5_self' = [t5_self EXCEPT !.reinitialized = chosen]
    /\ t5_log' = Append(t5_log, "reset_parameters")
    /\ UNCHANGED <<t5_pc, t5_args, t5_before>>
    /\ UNCHANGED <<emb_vars, coll_vars>>

NextT5 ==
    \/ T5New
    \/ T5SuperInit
    \/ T5LoadPretrainedConfig
    \/ T5WordEmbedder
    \/ T5Encoder
    \/ T5Decoder
    \/ T5InitPretrainedWeights
    \/ ResetParameters

\* The construction and use of a T5EncoderDecoder.
SpecT5 == Init /\ [][NextT5]_vars

\* Every function of the three files; a run uses the functions of one file.
Next ==
    \/ coll_call = "idle" /\ t5_pc = 0 /\ NextEmb
    \/ emb_call = "idle" /\ t5_pc = 0 /\ NextColl
    \/ emb_call = "idle" /\ coll_call = "idle" /\ NextT5
Spec == Init /\ [][Next]_vars

-----------------------------------------------------------------------------
(* Properties of T5EncoderDecoder. *)

\* The resolved configuration gives the encoder or the decoder a model
\* dimension that is not the embedder's embedding dimension.
DimensionMismatch ==
    /\ "load_pretrained_config" \in Range(t5_log)
    /\ \/ t5_self._hparams.encoder.dim # t5_self._hparams.embed.dim
       \/ t5_self._hparams.decoder.dim # t5_self._hparams.embed.dim

\* C5: constructing a T5EncoderDecoder from a configuration in which the
\* encoder's or the decoder's model dimension differs from the embedder's
\* embedding dimension fails during construction: no such model is ever
\* constructed.
C5_MismatchFailsConstruction ==
    DimensionMismatch => ~Constructed

\* A module-global initializer is configured.
InitializerConfigured == t5_self._hparams.initializer # PyNone

ResetDone == "reset_parameters" \in Range(t5_log)

\* C6 as stated: when reset_parameters runs, every weight matrix and every
\* bias that does not belong to a normalization layer is initialized by the
\* module-global initializer, and no normalization-layer parameter is.
C6_WeightsAndBiases ==
    (ResetDone /\ InitializerConfigured) =>
        \A n \in DOMAIN t5_params :
            /\ t5_params[n].kind \in {"weight", "bias"} =>
                  n \in t5_self.reinitialized
            /\ t5_params[n].kind = "norm" => n \notin t5_self.reinitialized

\* C6, amended: when reset_parameters runs with a module-global initializer
\* configured, the parameters passed to it are exactly the weight matrices of
\* the layers that are no normalization layers; biases, the embedding table
\* and the normalization layers' parameters are not passed and keep their
\* values.  With no initializer configured, none is passed.
C6_WeightsOnly ==
    ResetDone =>
        /\ t5_self.reinitialized =
              IF InitializerConfigured
              THEN {n \in DOMAIN t5_params : t5_params[n].kind = "weight"}
              ELSE {}
        /\ \A n \in DOMAIN t5_params :
              t5_params[n].value = "initializer" <=> n \in t5_self.reinitialized

\* reset_parameters ran with an initializer on a graph that has biases and
\* whose values came from a checkpoint: the weights were re-initialized, a
\* bias and a normalization weight were not.
C6_Witness ==
    /\ ResetDone
    /\ InitializerConfigured
    /\ "encoder.self_attns.0.Q_dense.bias" \in DOMAIN t5_params
    /\ t5_params["encoder.self_attns.0.Q_dense.bias"].value = "checkpoint"
    /\ t5_params["encoder.self_attns.0.Q_dense.weight"].value = "initializer"
    /\ t5_params["encoder.final_layer_norm.weight"].value = "checkpoint"

TokenInputs == {<<1>>, <<2>>, <<2, 1>>}

\* C7: in every constructed T5EncoderDecoder the decoder's token embedding
\* is the model's own word embedder, so that for any token ids the decoder's
\* token embedding equals the word embedder's result, and the decoder's output
\* layer is the identity.
C7_DecoderSharesEmbedder ==
    t5_self.decoder # PyNone =>
        /\ t5_self.decoder.output_layer = "identity"
        /\ \A tokens \in TokenInputs :
              CallTokenEmbedder(t5_self.decoder.token_embedder, tokens) =
                  WordEmbedderCall(t5_self.word_embedder, tokens)

\* A constructed model whose embedding table was overwritten from a
\* checkpoint after the decoder had been constructed.
C7_Witness ==
    /\ Constructed
    /\ t5_self.decoder # PyNone
    /\ t5_before["word_embedder._embedding"].value = "default"
    /\ t5_params["word_embedder._embedding"].value = "checkpoint"

\* A load of pretrained weights has begun, and reset_parameters has not run
\* since.
LoadBegun ==
    /\ t5_self.pretrained_model_name # PyNone
    /\ DOMAIN t5_before # {}
    /\ ~ResetDone

\* C8: loading pretrained weights is atomic.  If a checkpoint tensor's shape
\* disagrees with its parameter's shape the load fails with ShapeMismatchError
\* and no parameter of the graph has been modified; otherwise every matched
\* assignment has been applied and the parameters without a checkpoint entry
\* keep their values.
C8_AtomicLoad ==
    LoadBegun =>
        LET ckpt == t5_args.checkpoint
            bad == \E n \in DOMAIN ckpt \cap DOMAIN t5_before :
                      ckpt[n] # t5_before[n].shape
        IN  /\ bad <=> t5_self.raised = "ShapeMismatchError"
            /\ bad => t5_params = t5_before /\ ~Constructed
            /\ ~bad =>
                  /\ Constructed
                  /\ DOMAIN t5_params = DOMAIN t5_before
                  /\ \A n \in DOMAIN t5_params :
                        /\ t5_params[n].shape = t5_before[n].shape
                        /\ n \in DOMAIN ckpt => t5_params[n].value = "checkpoint"
                        /\ n \notin DOMAIN ckpt => t5_params[n] = t5_before[n]

\* A load failed on the shape of the last dense weight of the graph, of a
\* checkpoint that names every other parameter with its right shape.
C8_Witness ==
    /\ LoadBegun
    /\ t5_self.raised = "ShapeMismatchError"
    /\ DOMAIN t5_args.checkpoint = DOMAIN t5_params
    /\ t5_args.checkpoint["decoder.self_attns.0.Q_dense.weight"] #
          t5_params["decoder.self_attns.0.Q_dense.weight"].shape
    /\ t5_args.checkpoint["word_embedder._embedding"] =
          t5_params["word_embedder._embedding"].shape

\* C10: in every construction the pretrained configuration is loaded first,
\* then the word embedder is constructed, then the encoder, then the decoder
\* (which is given the embedder that already exists), and the pretrained
\* weights are copied in only when all three sub-modules exist.
C10_ConstructionOrder ==
    /\ t5_self.word_embedder # PyNone =>
          "load_pretrained_config" \in Range(t5_log)
    /\ t5_self.encoder # PyNone => t5_self.word_embedder # PyNone
    /\ t5_self.decoder # PyNone =>
          /\ t5_self.encoder # PyNone
          /\ t5_self.word_embedder # PyNone
    /\ (DOMAIN t5_before # {} \/ "init_pretrained_weights" \in Range(t5_log)) =>
          /\ t5_self.word_embedder # PyNone
          /\ t5_self.encoder # PyNone
          /\ t5_self.decoder # PyNone
    /\ \A n \in DOMAIN t5_params :
          t5_params[n].value = "checkpoint" => t5_self.decoder # PyNone
    /\ \A i, j \in 1..Len(t5_log) : t5_log[i] = t5_log[j] => i = j

\* A construction from a pretrained model ran to its end and copied weights.
C10_Witness ==
    /\ Constructed
    /\ t5_log = <<"super().__init__", "load_pretrained_config", "word_embedder",
                  "encoder", "decoder", "init_pretrained_weights">>
    /\ t5_params["decoder.self_attns.0.Q_dense.weight"].value = "checkpoint"

====
